---- MODULE Spec2Model ----
(***************************************************************************)
(* The ledger of the agent economy: the "agents" and "transactions"        *)
(* collections of the remote store, the recorder/registry/reader functions *)
(* of integrations/flux_integration.py that read and write them, and the   *)
(* orchestrator's local budget tracker (agents/orchestrator).              *)
(*                                                                         *)
(* Every store call (.execute()) is one atomic step of the store.  Spec    *)
(* runs each handler to completion, one call at a time; ConcSpec           *)
(* interleaves the store calls of concurrent callers.                      *)
(***************************************************************************)
EXTENDS Integers, Sequences, FiniteSets, TLC

\* ------------------------------------------------------------------ bounds

\* rows the transactions collection may hold before the model stops recording
MaxTx == 2
\* store calls that may raise inside one handler
MaxFaults == 1
\* callers whose store calls interleave
NumProcs == 2

\* ---------------------------------------------------------------- inputs

OrchestratorId == "orchestrator-001"
DataAnalystId == "data-analyst-001"
ContentWriterId == "content-writer-001"

\* agent names the registry, the recorders and the reader are called with;
\* the other specialists are never registered
Names == {OrchestratorId, ContentWriterId}
\* an external payer that is never registered
ClientId == "client-001"
\* amount_cents arguments of direct recorder calls (the code takes any int)
Amounts == {-50, 0, 125}
\* amount_cents arguments of the concurrent callers: valid amounts only
Payments == {40, 125}

\* 'from_agent_id': None / recipient_uuid = None
NoId == <<>>

VARIABLES
    agents,        \* the store's "agents" collection: a set of rows
    transactions,  \* the store's "transactions" collection, in insert order
    connected,     \* flux.supabase is not None
    orch,          \* the OrchestratorAgent object of this process
    ret,           \* the last completed call: its arguments and its result
    pc,            \* per concurrent caller: the store call it makes next
    frame,         \* per concurrent caller: the locals of its running call
    returned       \* per agent name: the recorder calls that returned an id

vars == <<agents, transactions, connected, orch, ret, pc, frame, returned>>

\* the state of the concurrent callers
conc == <<pc, frame, returned>>

Procs == 1..NumProcs

\* ------------------------------------------------------------ store calls

\* the sets of failing store calls of a handler that makes n store calls
FaultSets(n) == {F \in SUBSET (1..n) : Cardinality(F) <= MaxFaults}

\* the faults left for a callee whose first store call is the caller's k+1-th
Shift(F, k) == {i - k : i \in {j \in F : j > k}}

\* table('agents').select(...).eq('name', name).execute().data
SelectByName(ag, name) == {r \in ag : r.name = name}

\* result.data[0]: the row inserted first
First(data) == CHOOSE r \in data : \A s \in data : r.id[2] <= s.id[2]

\* str(uuid.uuid4()) for an agent row: a token no other row has
NewAgentUuid(ag, name) == <<name, Cardinality(SelectByName(ag, name)) + 1>>

\* an update without its .eq('id', uuid) filter: it writes every row
UpdateById_AllRows(ag, uuid, update_data) ==
    { [f \in DOMAIN r |->
          IF f \in DOMAIN update_data THEN update_data[f] ELSE r[f]] : r \in ag }

\* table('agents').update(update_data).eq('id', uuid).execute()
UpdateById(ag, uuid, update_data) ==
    { IF r.id = uuid
        THEN [f \in DOMAIN r |->
                IF f \in DOMAIN update_data THEN update_data[f] ELSE r[f]]
        ELSE r : r \in ag }

\* --------------------------------------------------------- Agent Registry

\* agent_data that starts a new agent with a balance
AgentData_Seeded(ag, agent_name) ==
    [ id |-> NewAgentUuid(ag, agent_name),
      name |-> agent_name,
      type |-> "earner",
      balance |-> 100,
      total_spent |-> 0,
      total_earned |-> 0,
      transaction_count |-> 0,
      avg_transaction_size |-> 0,
      status |-> "active" ]

\* agent_data of register_agent
AgentData(ag, agent_name) ==
    [ id |-> NewAgentUuid(ag, agent_name),
      name |-> agent_name,
      type |-> "earner",
      balance |-> 0,
      total_spent |-> 0,
      total_earned |-> 0,
      transaction_count |-> 0,
      avg_transaction_size |-> 0,
      status |-> "active" ]

\* register_agent without the lookup of the name: it always inserts
register_agent_NoLookup(ag, conn, agent_name, F) ==
    IF ~conn THEN [agents |-> ag, status |-> "False", raised |-> FALSE]
    ELSE IF 1 \in F \/ 2 \in F
        THEN [agents |-> ag, status |-> "False", raised |-> TRUE]
    ELSE [ agents |-> ag \cup {AgentData(ag, agent_name)},
           status |-> "True", raised |-> FALSE ]

\* register_agent that reports success when its insert raised
register_agent_Optimistic(ag, conn, agent_name, F) ==
    IF ~conn THEN [agents |-> ag, status |-> "False", raised |-> FALSE]
    ELSE IF 1 \in F THEN [agents |-> ag, status |-> "False", raised |-> TRUE]
    ELSE IF SelectByName(ag, agent_name) # {}
        THEN [agents |-> ag, status |-> "True", raised |-> FALSE]
    ELSE IF 2 \in F THEN [agents |-> ag, status |-> "True", raised |-> TRUE]
    ELSE [ agents |-> ag \cup {AgentData(ag, agent_name)},
           status |-> "True", raised |-> FALSE ]

\* FluxDashboardIntegration.register_agent: the store it leaves and its result
register_agent(ag, conn, agent_name, F) ==
    IF ~conn THEN [agents |-> ag, status |-> "False", raised |-> FALSE]
    ELSE IF 1 \in F THEN [agents |-> ag, status |-> "False", raised |-> TRUE]
    ELSE IF SelectByName(ag, agent_name) # {}
        THEN [agents |-> ag, status |-> "True", raised |-> FALSE]
    ELSE IF 2 \in F THEN [agents |-> ag, status |-> "False", raised |-> TRUE]
    ELSE [ agents |-> ag \cup {AgentData(ag, agent_name)},
           status |-> "True", raised |-> FALSE ]

\* ---------------------------------------------------- Transaction Recorder

\* transaction_data of record_earning
EarningTx(tx, agent, agent_id, client_id, amount_cents) ==
    [ id |-> Len(tx) + 1,
      from_agent_id |-> NoId,
      from_agent_name |-> client_id,
      to_agent_id |-> agent.id,
      to_agent_name |-> agent_id,
      amount |-> amount_cents ]

\* update_data of record_earning that leaves transaction_count out
EarningUpdate_NoCount(agent, amount_cents) ==
    [ total_earned |-> agent.total_earned + amount_cents,
      balance |-> agent.total_earned + amount_cents - agent.total_spent ]

\* update_data of record_earning whose average leaves total_spent out
EarningUpdate_AvgOfEarnings(agent, amount_cents) ==
    [ total_earned |-> agent.total_earned + amount_cents,
      balance |-> agent.total_earned + amount_cents - agent.total_spent,
      transaction_count |-> agent.transaction_count + 1,
      avg_transaction_size |->
          (agent.total_earned + amount_cents) \div (agent.transaction_count + 1) ]

\* update_data of record_earning, computed from the row read at the start
EarningUpdate(agent, amount_cents) ==
    LET new_total_earned == agent.total_earned + amount_cents
        new_transaction_count == agent.transaction_count + 1
        new_avg == IF new_transaction_count > 0
                     THEN (new_total_earned + agent.total_spent)
                              \div new_transaction_count
                     ELSE 0
    IN  [ total_earned |-> new_total_earned,
          balance |-> new_total_earned - agent.total_spent,
          transaction_count |-> new_transaction_count,
          avg_transaction_size |-> new_avg ]

\* record_earning that registers a payee it does not find
record_earning_AutoCreates(ag, tx, conn, agent_id, client_id, amount_cents, F) ==
    LET none == [agents |-> ag, transactions |-> tx, status |-> "None",
                 raised |-> FALSE]
        data == SelectByName(ag, agent_id)
        agent == First(data)
        tx2 == Append(tx, EarningTx(tx, agent, agent_id, client_id, amount_cents))
    IN  IF ~conn THEN none
        ELSE IF 1 \in F THEN [none EXCEPT !.raised = TRUE]
        ELSE IF data = {}
            THEN [none EXCEPT !.agents = ag \cup {AgentData(ag, agent_id)}]
        ELSE IF 2 \in F THEN [none EXCEPT !.raised = TRUE]
        ELSE IF 3 \in F THEN [none EXCEPT !.transactions = tx2, !.raised = TRUE]
        ELSE [ agents |-> UpdateById(ag, agent.id, EarningUpdate(agent, amount_cents)),
               transactions |-> tx2,
               status |-> "ok",
               raised |-> FALSE ]

\* FluxDashboardIntegration.record_earning
record_earning(ag, tx, conn, agent_id, client_id, amount_cents, F) ==
    LET none == [agents |-> ag, transactions |-> tx, status |-> "None",
                 raised |-> FALSE]
        data == SelectByName(ag, agent_id)
        agent == First(data)
        tx2 == Append(tx, EarningTx(tx, agent, agent_id, client_id, amount_cents))
    IN  IF ~conn THEN none
        ELSE IF 1 \in F THEN [none EXCEPT !.raised = TRUE]
        ELSE IF data = {} THEN none
        ELSE IF 2 \in F THEN [none EXCEPT !.raised = TRUE]
        ELSE IF 3 \in F THEN [none EXCEPT !.transactions = tx2, !.raised = TRUE]
        ELSE [ agents |-> UpdateById(ag, agent.id, EarningUpdate(agent, amount_cents)),
               transactions |-> tx2,
               status |-> "ok",
               raised |-> FALSE ]

\* transaction_data of record_agent_spending
SpendingTx(tx, spender, agent_id, recipient_uuid, recipient_id, amount_cents) ==
    [ id |-> Len(tx) + 1,
      from_agent_id |-> spender.id,
      from_agent_name |-> agent_id,
      to_agent_id |-> recipient_uuid,
      to_agent_name |-> recipient_id,
      amount |-> amount_cents ]

\* update_data of record_agent_spending that counts the row twice
SpendingUpdate_CountsTwice(spender, amount_cents) ==
    [ total_spent |-> spender.total_spent + amount_cents,
      balance |-> spender.total_earned - (spender.total_spent + amount_cents),
      transaction_count |-> spender.transaction_count + 2,
      avg_transaction_size |->
          (spender.total_earned + spender.total_spent + amount_cents)
              \div (spender.transaction_count + 2) ]

\* update_data of record_agent_spending
SpendingUpdate(spender, amount_cents) ==
    LET new_total_spent == spender.total_spent + amount_cents
        new_balance == spender.total_earned - new_total_spent
        new_transaction_count == spender.transaction_count + 1
        new_avg == IF new_transaction_count > 0
                     THEN (spender.total_earned + new_total_spent)
                              \div new_transaction_count
                     ELSE 0
    IN  [ total_spent |-> new_total_spent,
          balance |-> new_balance,
          transaction_count |-> new_transaction_count,
          avg_transaction_size |-> new_avg ]

\* recipient_result.data[0]['id'] if recipient_result.data else None
RecipientUuid(ag, recipient_id) ==
    IF SelectByName(ag, recipient_id) # {}
        THEN First(SelectByName(ag, recipient_id)).id
        ELSE NoId

\* record_agent_spending that writes its row over the newest row
record_agent_spending_Overwrites(ag, tx, conn, agent_id, recipient_id, amount_cents, F) ==
    LET none == [agents |-> ag, transactions |-> tx, status |-> "None",
                 raised |-> FALSE]
        data == SelectByName(ag, agent_id)
        spender == First(data)
        row == SpendingTx(tx, spender, agent_id, RecipientUuid(ag, recipient_id),
                          recipient_id, amount_cents)
        tx2 == IF tx = <<>> THEN <<row>> ELSE [tx EXCEPT ![Len(tx)] = row]
    IN  IF ~conn THEN none
        ELSE IF 1 \in F THEN [none EXCEPT !.raised = TRUE]
        ELSE IF data = {} THEN none
        ELSE IF 2 \in F \/ 3 \in F THEN [none EXCEPT !.raised = TRUE]
        ELSE IF 4 \in F THEN [none EXCEPT !.transactions = tx2, !.raised = TRUE]
        ELSE [ agents |-> UpdateById(ag, spender.id,
                                     SpendingUpdate(spender, amount_cents)),
               transactions |-> tx2,
               status |-> "ok",
               raised |-> FALSE ]

\* record_agent_spending that refuses an amount above the spender's balance
record_agent_spending_Enforces(ag, tx, conn, agent_id, recipient_id, amount_cents, F) ==
    LET none == [agents |-> ag, transactions |-> tx, status |-> "None",
                 raised |-> FALSE]
        data == SelectByName(ag, agent_id)
        spender == First(data)
        tx2 == Append(tx, SpendingTx(tx, spender, agent_id,
                                     RecipientUuid(ag, recipient_id),
                                     recipient_id, amount_cents))
    IN  IF ~conn THEN none
        ELSE IF 1 \in F THEN [none EXCEPT !.raised = TRUE]
        ELSE IF data = {} THEN none
        ELSE IF spender.balance < amount_cents THEN none
        ELSE IF 2 \in F \/ 3 \in F THEN [none EXCEPT !.raised = TRUE]
        ELSE IF 4 \in F THEN [none EXCEPT !.transactions = tx2, !.raised = TRUE]
        ELSE [ agents |-> UpdateById(ag, spender.id,
                                     SpendingUpdate(spender, amount_cents)),
               transactions |-> tx2,
               status |-> "ok",
               raised |-> FALSE ]

\* record_agent_spending
record_agent_spending(ag, tx, conn, agent_id, recipient_id, amount_cents, F) ==
    LET none == [agents |-> ag, transactions |-> tx, status |-> "None",
                 raised |-> FALSE]
        data == SelectByName(ag, agent_id)
        spender == First(data)
        tx2 == Append(tx, SpendingTx(tx, spender, agent_id,
                                     RecipientUuid(ag, recipient_id),
                                     recipient_id, amount_cents))
    IN  IF ~conn THEN none
        ELSE IF 1 \in F THEN [none EXCEPT !.raised = TRUE]
        ELSE IF data = {} THEN none
        ELSE IF 2 \in F \/ 3 \in F THEN [none EXCEPT !.raised = TRUE]
        ELSE IF 4 \in F THEN [none EXCEPT !.transactions = tx2, !.raised = TRUE]
        ELSE [ agents |-> UpdateById(ag, spender.id,
                                     SpendingUpdate(spender, amount_cents)),
               transactions |-> tx2,
               status |-> "ok",
               raised |-> FALSE ]

\* ----------------------------------------------------- Balance/Stats Reader

\* whether the reader's store call raised
StatsRaised(conn, F) == conn /\ 1 \in F

\* FluxDashboardIntegration.get_agent_stats: <<>> for None, <<stats>> otherwise
get_agent_stats(ag, conn, agent_id, F) ==
    IF ~conn \/ 1 \in F \/ SelectByName(ag, agent_id) = {} THEN <<>>
    ELSE LET agent == First(SelectByName(ag, agent_id))
         IN  << [ id |-> agent.id,
                  name |-> agent.name,
                  type |-> agent.type,
                  balance |-> agent.balance,
                  total_earned |-> agent.total_earned,
                  total_spent |-> agent.total_spent,
                  transaction_count |-> agent.transaction_count,
                  avg_transaction_size |-> agent.avg_transaction_size,
                  status |-> agent.status ] >>

\* ------------------------------------------------------ Specialized agents

\* the keys of OrchestratorAgent.available_agents
AgentTypes == {"data_analyst", "content_writer", "researcher",
               "coding_specialist", "marketing_specialist"}

\* agent_type arguments of hire_agent: the offered types and one that is not
HireTypes == {"data_analyst", "content_writer", "coding_specialist", "translator"}

\* the default agent_id of each specialized agent class
AgentIdOf(agent_type) ==
    CASE agent_type = "data_analyst" -> DataAnalystId
      [] agent_type = "content_writer" -> ContentWriterId
      [] agent_type = "researcher" -> "researcher-001"
      [] agent_type = "coding_specialist" -> "coding-specialist-001"
      [] agent_type = "marketing_specialist" -> "marketing-specialist-001"

\* hourly_rate_cents / price_per_word_cents defaults of the agent classes
DataAnalystRate == 2500
ResearcherRate == 3500
CodingSpecialistRate == 5000
MarketingSpecialistRate == 4000
PricePerWord == 10

\* what a hired task took: len(result.final_output.split()) of the content
\* writer's output, whole hours elapsed since task_start_time for the others
Efforts(agent_type) ==
    IF agent_type = "content_writer"
        THEN {[words |-> 23, hours |-> 0], [words |-> 90, hours |-> 0]}
        ELSE {[words |-> 0, hours |-> 0]}

\* the classes whose constructor runs to its end with register_in_flux=False;
\* CodingSpecialistAgent.__init__ reads the undefined name hourly_rate
Constructible(agent_type) == agent_type # "coding_specialist"

\* the classes whose execute_task reaches its try block;
\* MarketingSpecialistAgent.execute_task reads the undefined self.hourly_rate
Executable(agent_type) == agent_type # "marketing_specialist"

\* earnings_cents of execute_task: int(max(1.0, hours) * rate), or words * price
EarningsCents(agent_type, effort) ==
    LET hours == IF effort.hours < 1 THEN 1 ELSE effort.hours
    IN  CASE agent_type = "data_analyst" -> hours * DataAnalystRate
          [] agent_type = "content_writer" -> effort.words * PricePerWord
          [] agent_type = "researcher" -> hours * ResearcherRate
          [] agent_type = "coding_specialist" -> hours * CodingSpecialistRate
          [] agent_type = "marketing_specialist" -> hours * MarketingSpecialistRate

\* the cent amounts c <= 1000 for which float(f"{c/100:.2f}") * 100 falls
\* just below c in binary floating point (2.3 * 100 = 229.99999999999997)
FloatShort == {29, 57, 58, 113, 114, 115, 116, 201, 203, 205, 207, 226, 228,
               230, 232, 251, 253, 255, 402, 406, 410, 414, 427, 431, 435,
               439, 452, 456, 460, 464, 477, 481, 485, 489, 502, 506, 510,
               803, 804, 812, 820, 828, 829, 837, 845, 853, 854, 862, 870,
               878, 879, 887, 895, 903, 904, 912, 920, 928, 929, 937, 945,
               953, 954, 962, 970, 978, 979, 987, 995}

\* int(float(earnings_str.replace('$', '')) * 100) of f"${earnings_cents/100:.2f}"
ParseEarnings(earnings_cents) ==
    IF earnings_cents \in FloatShort THEN earnings_cents - 1 ELSE earnings_cents

\* execute_task of a specialized agent with auto_charge=True: the store it
\* leaves and the result dictionary's status and earnings
execute_task(ag, tx, conn, agent_type, client_id, taskOk, effort, F) ==
    IF ~taskOk
        THEN [ agents |-> ag, transactions |-> tx, status |-> "error",
               earnings |-> 0, raised |-> FALSE ]
        ELSE LET rec == record_earning(ag, tx, conn, AgentIdOf(agent_type), client_id,
                                       EarningsCents(agent_type, effort), F)
             IN  [ agents |-> rec.agents,
                   transactions |-> rec.transactions,
                   status |-> "success",
                   earnings |-> EarningsCents(agent_type, effort),
                   raised |-> rec.raised ]

\* ------------------------------------------------ Spending Orchestration Glue

\* budget arguments of the constructor, in dollars
Budgets == {10}
\* estimated_cost_cents arguments of hire_agent
Costs == {50, 100, 150}

\* OrchestratorAgent.__init__: the store it leaves and the object's trackers
OrchestratorInit(ag, conn, agent_id, budget, register_in_flux, F) ==
    LET default == [ agents |-> ag, budget_cents |-> budget * 100,
                     spent_cents |-> 0, raised |-> FALSE ]
        existing_stats == get_agent_stats(ag, conn, agent_id, F)
        reg == register_agent(ag, conn, agent_id, Shift(F, 1))
        registered == [default EXCEPT !.agents = reg.agents,
                                      !.raised = StatsRaised(conn, F) \/ reg.raised]
        result == SelectByName(reg.agents, agent_id)
    IN  IF ~register_in_flux THEN default
        ELSE IF existing_stats # <<>>
            THEN [ agents |-> ag,
                   budget_cents |-> existing_stats[1].balance,
                   spent_cents |-> existing_stats[1].total_spent,
                   raised |-> FALSE ]
        ELSE IF ~conn THEN registered
        ELSE IF 4 \in F THEN [registered EXCEPT !.raised = TRUE]
        ELSE IF result = {} THEN registered
        ELSE IF 5 \in F THEN [registered EXCEPT !.raised = TRUE]
        ELSE [registered EXCEPT !.agents =
                UpdateById(reg.agents, First(result).id,
                           [type |-> "spender", balance |-> budget * 100])]

\* a budget gate that compares the cost with the whole budget
InsufficientBudget_IgnoresSpent(o, estimated_cost_cents) ==
    estimated_cost_cents > o.budget_cents

\* the budget gate of hire_agent
InsufficientBudget(o, estimated_cost_cents) ==
    estimated_cost_cents > o.budget_cents - o.spent_cents

\* hire_agent that charges for a task whatever status the task reported
hire_agent_ChargesFailedTask(ag, tx, conn, o, agent_type, estimated_cost_cents, taskOk, effort, F) ==
    LET same == [agents |-> ag, transactions |-> tx, orch |-> o, raised |-> FALSE]
        task == execute_task(ag, tx, conn, agent_type, o.agent_id, taskOk, effort, F)
        earnings_cents == ParseEarnings(EarningsCents(agent_type, effort))
        spend == record_agent_spending(task.agents, task.transactions, conn,
                                       o.agent_id, AgentIdOf(agent_type),
                                       earnings_cents, Shift(F, 3))
        hired == [o EXCEPT !.instances = @ \cup {agent_type}]
    IN  IF agent_type \notin AgentTypes
            THEN same @@ [status |-> "error", error |-> "unknown_agent"]
        ELSE IF InsufficientBudget(o, estimated_cost_cents)
            THEN same @@ [status |-> "error", error |-> "insufficient_budget"]
        ELSE IF agent_type \notin o.instances /\ ~Constructible(agent_type)
            THEN same @@ [status |-> "error", error |-> "exception"]
        ELSE IF ~Executable(agent_type)
            THEN [same EXCEPT !.orch = hired]
                     @@ [status |-> "error", error |-> "exception"]
        ELSE [ agents |-> spend.agents,
               transactions |-> spend.transactions,
               orch |-> [hired EXCEPT !.spent_cents = @ + earnings_cents],
               raised |-> task.raised \/ spend.raised,
               status |-> "success",
               error |-> IF task.status = "success" THEN "" ELSE "task_error" ]

\* OrchestratorAgent.hire_agent: the store and the object it leaves, the
\* returned status and the amount charged
hire_agent(ag, tx, conn, o, agent_type, estimated_cost_cents, taskOk, effort, F) ==
    LET same == [agents |-> ag, transactions |-> tx, orch |-> o, raised |-> FALSE]
        task == execute_task(ag, tx, conn, agent_type, o.agent_id, taskOk, effort, F)
        earnings_cents == ParseEarnings(task.earnings)
        spend == record_agent_spending(task.agents, task.transactions, conn,
                                       o.agent_id, AgentIdOf(agent_type),
                                       earnings_cents, Shift(F, 3))
        hired == [o EXCEPT !.instances = @ \cup {agent_type}]
    IN  IF agent_type \notin AgentTypes
            THEN same @@ [status |-> "error", error |-> "unknown_agent"]
        ELSE IF InsufficientBudget(o, estimated_cost_cents)
            THEN same @@ [status |-> "error", error |-> "insufficient_budget"]
        ELSE IF agent_type \notin o.instances /\ ~Constructible(agent_type)
            THEN same @@ [status |-> "error", error |-> "exception"]
        ELSE IF ~Executable(agent_type)
            THEN [same EXCEPT !.orch = hired]
                     @@ [status |-> "error", error |-> "exception"]
        ELSE IF task.status # "success"
            THEN [ agents |-> task.agents, transactions |-> task.transactions,
                   orch |-> hired, raised |-> task.raised,
                   status |-> "success", error |-> "task_error" ]
        ELSE [ agents |-> spend.agents,
               transactions |-> spend.transactions,
               orch |-> [hired EXCEPT !.spent_cents = @ + earnings_cents],
               raised |-> task.raised \/ spend.raised,
               status |-> "success",
               error |-> "" ]

\* check_budget that reports nothing left when it cannot read the store
check_budget_NoFallback(ag, conn, o, F) ==
    LET stats == get_agent_stats(ag, conn, o.agent_id, F)
    IN  IF stats # <<>>
            THEN [ orch |-> [o EXCEPT !.budget_cents =
                                          stats[1].balance + stats[1].total_spent,
                                      !.spent_cents = stats[1].total_spent],
                   remaining |-> stats[1].balance,
                   raised |-> FALSE ]
            ELSE [ orch |-> o, remaining |-> 0, raised |-> StatsRaised(conn, F) ]

\* OrchestratorAgent.check_budget: the refreshed object and remaining_cents
check_budget(ag, conn, o, F) ==
    LET stats == get_agent_stats(ag, conn, o.agent_id, F)
    IN  IF stats # <<>>
            THEN [ orch |-> [o EXCEPT !.budget_cents =
                                          stats[1].balance + stats[1].total_spent,
                                      !.spent_cents = stats[1].total_spent],
                   remaining |-> stats[1].balance,
                   raised |-> FALSE ]
            ELSE [ orch |-> o, remaining |-> o.budget_cents - o.spent_cents,
                   raised |-> StatsRaised(conn, F) ]

\* the 'rate' entries of OrchestratorAgent.available_agents
RateOf(agent_type) ==
    CASE agent_type = "data_analyst" -> DataAnalystRate
      [] agent_type = "content_writer" -> PricePerWord
      [] agent_type = "researcher" -> ResearcherRate
      [] agent_type = "coding_specialist" -> CodingSpecialistRate
      [] agent_type = "marketing_specialist" -> MarketingSpecialistRate

\* required_agents arguments of create_execution_plan: offered types, a
\* type that is not offered, and one type needed for many steps
Plans == { <<"content_writer">>, <<"data_analyst">>,
           <<"content_writer", "translator">>,
           [i \in 1..11 |-> "content_writer"] }

\* sum(available_agents[agent]['rate'] for agent in required_agents
\*     if agent in available_agents)
RECURSIVE PlanTotal(_)
PlanTotal(required_agents) ==
    IF required_agents = <<>> THEN 0
    ELSE (IF Head(required_agents) \in AgentTypes
             THEN RateOf(Head(required_agents)) ELSE 0)
         + PlanTotal(Tail(required_agents))

\* OrchestratorAgent.create_execution_plan: the plan's total and budget_check
create_execution_plan(o, required_agents) ==
    [ estimated_total_cost |-> PlanTotal(required_agents),
      budget_check |-> IF o.budget_cents > PlanTotal(required_agents)
                          THEN "OK" ELSE "INSUFFICIENT" ]

\* ------------------------------------------------------------------ state

\* the value of ret before any call has completed
NoCall == [op |-> "", name |-> "", amount |-> 0, status |-> "", raised |-> FALSE]

\* the orchestrator object before the constructor has run
NoOrch == [constructed |-> FALSE, agent_id |-> OrchestratorId,
           budget_cents |-> 0, spent_cents |-> 0, instances |-> {}]

\* the locals of a caller that is in no call
NoFrame == [agent_id |-> "", recipient_id |-> "", amount_cents |-> 0,
            data |-> <<>>, recipient_uuid |-> NoId]

\* no recorder call has returned yet
NoneReturned == [earned |-> 0, spent |-> 0, calls |-> 0]

Init ==
    /\ agents = {}
    /\ transactions = <<>>
    /\ connected \in BOOLEAN
    /\ orch = NoOrch
    /\ ret = NoCall
    /\ pc = [p \in Procs |-> "idle"]
    /\ frame = [p \in Procs |-> NoFrame]
    /\ returned = [n \in Names |-> NoneReturned]

\* --------------------------------------- handlers run one at a time (Spec)

RegisterAgent ==
    \E agent_name \in Names, F \in FaultSets(2) :
        LET r == register_agent(agents, connected, agent_name, F)
        IN  /\ agents' = r.agents
            /\ ret' = [NoCall EXCEPT !.op = "register_agent", !.name = agent_name,
                                     !.status = r.status, !.raised = r.raised]
            /\ UNCHANGED <<transactions, connected, orch, conc>>

RecordEarning ==
    \E agent_id \in Names, amount_cents \in Amounts, F \in FaultSets(3) :
        LET r == record_earning(agents, transactions, connected, agent_id,
                                ClientId, amount_cents, F)
        IN  /\ Len(transactions) < MaxTx
            /\ agents' = r.agents
            /\ transactions' = r.transactions
            /\ ret' = [NoCall EXCEPT !.op = "record_earning", !.name = agent_id,
                                     !.status = r.status, !.raised = r.raised]
            /\ UNCHANGED <<connected, orch, conc>>

RecordSpending ==
    \E agent_id \in Names, recipient_id \in Names,
       amount_cents \in Amounts, F \in FaultSets(4) :
        LET r == record_agent_spending(agents, transactions, connected, agent_id,
                                       recipient_id, amount_cents, F)
        IN  /\ Len(transactions) < MaxTx
            /\ recipient_id # agent_id
            /\ agents' = r.agents
            /\ transactions' = r.transactions
            /\ ret' = [NoCall EXCEPT !.op = "record_agent_spending",
                                     !.name = agent_id, !.status = r.status,
                                     !.raised = r.raised]
            /\ UNCHANGED <<connected, orch, conc>>

GetAgentStats ==
    \E agent_id \in Names, F \in FaultSets(1) :
        LET stats == get_agent_stats(agents, connected, agent_id, F)
        IN  /\ ret' = [NoCall EXCEPT !.op = "get_agent_stats", !.name = agent_id,
                                     !.status = IF stats = <<>> THEN "None" ELSE "ok",
                                     !.raised = StatsRaised(connected, F)]
            /\ UNCHANGED <<agents, transactions, connected, orch, conc>>

Construct ==
    \E budget \in Budgets, register_in_flux \in BOOLEAN, F \in FaultSets(5) :
        LET r == OrchestratorInit(agents, connected, OrchestratorId, budget,
                                  register_in_flux, F)
        IN  /\ agents' = r.agents
            /\ orch' = [NoOrch EXCEPT !.constructed = TRUE,
                                      !.budget_cents = r.budget_cents,
                                      !.spent_cents = r.spent_cents]
            /\ ret' = [NoCall EXCEPT !.op = "__init__", !.name = OrchestratorId,
                                     !.status = "ok", !.raised = r.raised]
            /\ UNCHANGED <<transactions, connected, conc>>

HireAgent ==
    \E agent_type \in HireTypes, estimated_cost_cents \in Costs,
       taskOk \in BOOLEAN, F \in FaultSets(7) :
      \E effort \in Efforts(agent_type) :
        LET r == hire_agent(agents, transactions, connected, orch, agent_type,
                            estimated_cost_cents, taskOk, effort, F)
        IN  /\ orch.constructed
            /\ Len(transactions) + 2 <= MaxTx
            /\ agents' = r.agents
            /\ transactions' = r.transactions
            /\ orch' = r.orch
            /\ ret' = [NoCall EXCEPT !.op = "hire_agent", !.name = agent_type,
                                     !.amount = estimated_cost_cents,
                                     !.status = r.status \o ":" \o r.error,
                                     !.raised = r.raised]
            /\ UNCHANGED <<connected, conc>>

CheckBudget ==
    \E F \in FaultSets(1) :
        LET r == check_budget(agents, connected, orch, F)
        IN  /\ orch.constructed
            /\ orch' = r.orch
            /\ ret' = [NoCall EXCEPT !.op = "check_budget", !.name = OrchestratorId,
                                     !.status = "ok", !.amount = r.remaining,
                                     !.raised = r.raised]
            /\ UNCHANGED <<agents, transactions, connected, conc>>

CreateExecutionPlan ==
    \E required_agents \in Plans :
        LET plan == create_execution_plan(orch, required_agents)
        IN  /\ orch.constructed
            /\ ret' = [NoCall EXCEPT !.op = "create_execution_plan",
                                     !.amount = plan.estimated_total_cost,
                                     !.status = plan.budget_check]
            /\ UNCHANGED <<agents, transactions, connected, orch, conc>>

\* the ledger's handlers: registry, recorders, reader
Next ==
    \/ RegisterAgent
    \/ RecordEarning
    \/ RecordSpending
    \/ GetAgentStats

Spec == Init /\ [][Next]_vars

\* one orchestrator's run: start-up, registrations, hires, budget refreshes
OrchNext ==
    \/ RegisterAgent
    \/ Construct
    \/ HireAgent
    \/ CheckBudget
    \/ CreateExecutionPlan

OrchSpec == Init /\ [][OrchNext]_vars

\* ------------------------- store calls of concurrent callers (ConcSpec)

\* rows that running calls are still going to insert
PendingInserts ==
    Cardinality({p \in Procs : pc[p] \in {"e_insert", "s_recipient", "s_insert"}})

\* record_earning, first store call: read the payee's row by name
EarningSelect(p) ==
    \E agent_id \in Names, amount_cents \in Payments :
        /\ pc[p] = "idle"
        /\ connected
        /\ Len(transactions) + PendingInserts < MaxTx
        /\ IF SelectByName(agents, agent_id) = {}
              THEN UNCHANGED <<pc, frame>>
              ELSE /\ pc' = [pc EXCEPT ![p] = "e_insert"]
                   /\ frame' = [frame EXCEPT ![p] =
                         [NoFrame EXCEPT !.agent_id = agent_id,
                                         !.amount_cents = amount_cents,
                                         !.data = <<First(SelectByName(agents, agent_id))>>]]
        /\ UNCHANGED <<agents, transactions, connected, orch, ret, returned>>

\* record_earning, second store call: insert the transaction row
EarningInsert(p) ==
    /\ pc[p] = "e_insert"
    /\ transactions' = Append(transactions,
           EarningTx(transactions, frame[p].data[1], frame[p].agent_id,
                     ClientId, frame[p].amount_cents))
    /\ pc' = [pc EXCEPT ![p] = "e_update"]
    /\ UNCHANGED <<agents, connected, orch, ret, frame, returned>>

\* record_earning, third store call: write the stats computed from the row
\* read by the first call, and return the transaction id
EarningWrite(p) ==
    /\ pc[p] = "e_update"
    /\ agents' = UpdateById(agents, frame[p].data[1].id,
                            EarningUpdate(frame[p].data[1], frame[p].amount_cents))
    /\ returned' = [returned EXCEPT ![frame[p].agent_id] =
           [@ EXCEPT !.earned = @ + frame[p].amount_cents, !.calls = @ + 1]]
    /\ pc' = [pc EXCEPT ![p] = "idle"]
    /\ frame' = [frame EXCEPT ![p] = NoFrame]
    /\ UNCHANGED <<transactions, connected, orch, ret>>

\* record_agent_spending, first store call: read the spender's row by name
SpendingSelect(p) ==
    \E agent_id \in Names, recipient_id \in Names, amount_cents \in Payments :
        /\ pc[p] = "idle"
        /\ connected
        /\ recipient_id # agent_id
        /\ Len(transactions) + PendingInserts < MaxTx
        /\ IF SelectByName(agents, agent_id) = {}
              THEN UNCHANGED <<pc, frame>>
              ELSE /\ pc' = [pc EXCEPT ![p] = "s_recipient"]
                   /\ frame' = [frame EXCEPT ![p] =
                         [NoFrame EXCEPT !.agent_id = agent_id,
                                         !.recipient_id = recipient_id,
                                         !.amount_cents = amount_cents,
                                         !.data = <<First(SelectByName(agents, agent_id))>>]]
        /\ UNCHANGED <<agents, transactions, connected, orch, ret, returned>>

\* record_agent_spending, second store call: look the recipient up
SpendingRecipient(p) ==
    /\ pc[p] = "s_recipient"
    /\ frame' = [frame EXCEPT ![p].recipient_uuid =
                    RecipientUuid(agents, frame[p].recipient_id)]
    /\ pc' = [pc EXCEPT ![p] = "s_insert"]
    /\ UNCHANGED <<agents, transactions, connected, orch, ret, returned>>

\* record_agent_spending, third store call: insert the transaction row
SpendingInsert(p) ==
    /\ pc[p] = "s_insert"
    /\ transactions' = Append(transactions,
           SpendingTx(transactions, frame[p].data[1], frame[p].agent_id,
                      frame[p].recipient_uuid, frame[p].recipient_id,
                      frame[p].amount_cents))
    /\ pc' = [pc EXCEPT ![p] = "s_update"]
    /\ UNCHANGED <<agents, connected, orch, ret, frame, returned>>

\* record_agent_spending, fourth store call: write the spender's stats
SpendingWrite(p) ==
    /\ pc[p] = "s_update"
    /\ agents' = UpdateById(agents, frame[p].data[1].id,
                            SpendingUpdate(frame[p].data[1], frame[p].amount_cents))
    /\ returned' = [returned EXCEPT ![frame[p].agent_id] =
           [@ EXCEPT !.spent = @ + frame[p].amount_cents, !.calls = @ + 1]]
    /\ pc' = [pc EXCEPT ![p] = "idle"]
    /\ frame' = [frame EXCEPT ![p] = NoFrame]
    /\ UNCHANGED <<transactions, connected, orch, ret>>

\* register_agent, first store call: look the name up; return True if found
RegisterSelect(p) ==
    \E agent_name \in Names :
        /\ pc[p] = "idle"
        /\ connected
        /\ IF SelectByName(agents, agent_name) # {}
              THEN UNCHANGED <<pc, frame>>
              ELSE /\ pc' = [pc EXCEPT ![p] = "r_insert"]
                   /\ frame' = [frame EXCEPT ![p] =
                                   [NoFrame EXCEPT !.agent_id = agent_name]]
        /\ UNCHANGED <<agents, transactions, connected, orch, ret, returned>>

\* register_agent, second store call: insert the new row
RegisterInsert(p) ==
    /\ pc[p] = "r_insert"
    /\ agents' = agents \cup {AgentData(agents, frame[p].agent_id)}
    /\ pc' = [pc EXCEPT ![p] = "idle"]
    /\ frame' = [frame EXCEPT ![p] = NoFrame]
    /\ UNCHANGED <<transactions, connected, orch, ret, returned>>

\* callers whose store calls interleave, and a reader
ConcNext ==
    \/ \E p \in Procs : EarningSelect(p)
    \/ \E p \in Procs : EarningInsert(p)
    \/ \E p \in Procs : EarningWrite(p)
    \/ \E p \in Procs : SpendingSelect(p)
    \/ \E p \in Procs : SpendingRecipient(p)
    \/ \E p \in Procs : SpendingInsert(p)
    \/ \E p \in Procs : SpendingWrite(p)
    \/ \E p \in Procs : RegisterSelect(p)
    \/ \E p \in Procs : RegisterInsert(p)
    \/ GetAgentStats

ConcSpec == Init /\ [][ConcNext]_vars

\* ------------------------------------------------- properties of the ledger

Recorders == {"record_earning", "record_agent_spending"}

\* the reader's view of an agent, when every store call answers
Stats(ag, name) == get_agent_stats(ag, TRUE, name, {})

\* the row a recorder call has just appended
LastTx(tx) == tx[Len(tx)]

\* the rows for which agent row r is the party the recording call updates:
\* the payee of an earning row (no payer id), the payer of a spending row
OwnRows(tx, r) ==
    {i \in DOMAIN tx : \/ tx[i].from_agent_id = NoId /\ tx[i].to_agent_id = r.id
                       \/ tx[i].from_agent_id = r.id}

\* the rows that name agent row r as payer or as payee
TouchingRows(tx, r) ==
    {i \in DOMAIN tx : tx[i].from_agent_name = r.name \/ tx[i].to_agent_name = r.name}

\* C3: after a record_earning call for a registered agent returns a
\* transaction id, get_agent_stats of that agent shows total_earned raised by
\* exactly the amount and transaction_count raised by exactly one.
C3_EarningVisibleToReader ==
    [][ (ret'.op = "record_earning" /\ ret'.status = "ok") =>
          LET before == Stats(agents, ret'.name)
              after == Stats(agents', ret'.name)
          IN  /\ before # <<>>
              /\ after # <<>>
              /\ Len(transactions') = Len(transactions) + 1
              /\ LastTx(transactions').to_agent_name = ret'.name
              /\ after[1].total_earned =
                     before[1].total_earned + LastTx(transactions').amount
              /\ after[1].transaction_count = before[1].transaction_count + 1
      ]_vars

\* a successful earning of 125 cents is the last call, and the reader shows it
C3_Witness ==
    /\ ret.op = "record_earning"
    /\ ret.status = "ok"
    /\ LastTx(transactions).amount = 125
    /\ Stats(agents, ret.name) # <<>>
    /\ Stats(agents, ret.name)[1].total_earned = 125
    /\ Stats(agents, ret.name)[1].transaction_count = 1

\* C5: a recorder call with amount_cents <= 0 returns no transaction id and
\* leaves the transactions collection and every agent record unchanged; so a
\* recorder call that returns an id or changes the store has a positive amount.
C5_NonPositiveRejected ==
    [][ ( /\ ret'.op \in Recorders
          /\ \/ ret'.status = "ok"
             \/ transactions' # transactions
             \/ agents' # agents )
        => ( /\ Len(transactions') > Len(transactions)
             /\ LastTx(transactions').amount > 0 )
      ]_vars

\* C6: register_agent called for a name that is already registered changes
\* nothing in the agents collection and returns True when no store call
\* raises; after any successful registration the name has exactly one row.
C6_IdempotentRegistration ==
    [][ ret'.op = "register_agent" =>
          /\ SelectByName(agents, ret'.name) # {} =>
                /\ agents' = agents
                /\ ~ret'.raised => ret'.status = "True"
          /\ ret'.status = "True" =>
                Cardinality(SelectByName(agents', ret'.name)) = 1
      ]_vars

\* a registration that returned True for an agent that already has a
\* recorded transaction: the name was registered before this call
C6_Witness ==
    /\ ret.op = "register_agent"
    /\ ret.status = "True"
    /\ \E r \in SelectByName(agents, ret.name) : r.transaction_count > 0

\* C7: no step lowers the stored total_earned or total_spent of an agent.
C7_TotalsNeverDecrease ==
    [][ \A r \in agents : \A r2 \in agents' :
            r2.id = r.id => /\ r2.total_earned >= r.total_earned
                            /\ r2.total_spent >= r.total_spent
      ]_vars

Party(ag, name) == First(SelectByName(ag, name))

\* C11: after every recorder call that returns a transaction id, the stored
\* avg_transaction_size of the agent it updated is (total_earned +
\* total_spent) divided by transaction_count (integer division), taken from
\* the values stored after the call.
C11_AverageRecomputed ==
    [][ (ret'.op \in Recorders /\ ret'.status = "ok") =>
          LET r == Party(agents', ret'.name)
          IN  /\ r.transaction_count > 0
              /\ r.avg_transaction_size =
                     (r.total_earned + r.total_spent) \div r.transaction_count
      ]_vars

\* an agent that earned 125 and spent 125 in two calls: the average is 125
C11_Witness ==
    /\ ret.op \in Recorders
    /\ ret.status = "ok"
    /\ Party(agents, ret.name).total_earned = 125
    /\ Party(agents, ret.name).total_spent = 125
    /\ Party(agents, ret.name).transaction_count = 2
    /\ Party(agents, ret.name).avg_transaction_size = 125

\* C12: a recorder call for a name that has no agent row returns no
\* transaction id, creates no agent row, appends no transaction row and
\* changes no agent's stats.
C12_NotFoundWritesNothing ==
    [][ (ret'.op \in Recorders /\ SelectByName(agents, ret'.name) = {}) =>
          /\ ret'.status = "None"
          /\ agents' = agents
          /\ transactions' = transactions
      ]_vars

\* a recorder call on a reachable store found no row for its name while
\* another agent is registered and has a recorded transaction
C12_Witness ==
    /\ ret.op \in Recorders
    /\ ret.status = "None"
    /\ connected
    /\ ~ret.raised
    /\ SelectByName(agents, ret.name) = {}
    /\ \E r \in agents : r.transaction_count = 1

\* C13: a recorder call that returns None leaves the transactions collection
\* and every agent record unchanged, whichever store call failed.
C13_FailureWritesNothing ==
    [][ (ret'.op \in Recorders /\ ret'.status = "None") =>
          /\ agents' = agents
          /\ transactions' = transactions
      ]_vars

C16_FirstRegistrationZeros ==
    [][ ( /\ ret'.op = "register_agent"
          /\ ret'.status = "True"
          /\ SelectByName(agents, ret'.name) = {} )
        => \E r \in agents' :
              /\ r \notin agents
              /\ agents' = agents \cup {r}
              /\ r.name = ret'.name
              /\ r.balance = 0
              /\ r.total_earned = 0
              /\ r.total_spent = 0
              /\ r.transaction_count = 0
              /\ r.status = "active"
      ]_vars

\* the only agent of the store has just been registered, with zero stats
C16_Witness ==
    /\ ret.op = "register_agent"
    /\ ret.status = "True"
    /\ Cardinality(agents) = 1
    /\ transactions = <<>>
    /\ Party(agents, ret.name).balance = 0
    /\ Party(agents, ret.name).status = "active"

\* C17: on a reachable store where no store call fails, record_agent_spending
\* for a registered payer returns an id and adds the amount to total_spent
\* whatever the payer's balance is; the new balance is total_earned -
\* total_spent, negative or not.
C17_NoBudgetEnforcement ==
    [][ ( /\ ret'.op = "record_agent_spending"
          /\ connected
          /\ ~ret'.raised
          /\ SelectByName(agents, ret'.name) # {} )
        => /\ ret'.status = "ok"
           /\ Len(transactions') = Len(transactions) + 1
           /\ Party(agents', ret'.name).total_spent =
                  Party(agents, ret'.name).total_spent + LastTx(transactions').amount
           /\ Party(agents', ret'.name).balance =
                  Party(agents', ret'.name).total_earned
                      - Party(agents', ret'.name).total_spent
      ]_vars

\* a payer that never earned has spent 125 twice: its balance is -250
C17_Witness ==
    /\ ret.op = "record_agent_spending"
    /\ ret.status = "ok"
    /\ Party(agents, ret.name).total_earned = 0
    /\ Party(agents, ret.name).balance = -250

\* --------------------------------------------- properties of the orchestrator

\* C1: every stored agent satisfies balance = total_earned - total_spent.
C1_Conservation ==
    \A r \in agents : r.balance = r.total_earned - r.total_spent

\* C8: for an offered agent type, hire_agent returns the insufficient-budget
\* error exactly when the estimated cost exceeds budget_cents - spent_cents;
\* a cost up to the remaining budget passes the gate.
C8_BudgetGate ==
    [][ (ret'.op = "hire_agent" /\ ret'.name \in AgentTypes) =>
          ( ret'.status = "error:insufficient_budget"
              <=> ret'.amount > orch.budget_cents - orch.spent_cents )
      ]_vars

\* budget 1000, spent 900: a hire estimated at 150 has just been denied
C8_Witness ==
    /\ ret.op = "hire_agent"
    /\ ret.name \in AgentTypes
    /\ ret.amount = 150
    /\ ret.status = "error:insufficient_budget"
    /\ orch.budget_cents = 1000
    /\ orch.spent_cents = 900

\* C9: a hire_agent call that starts with spent_cents <= budget_cents ends
\* with spent_cents <= budget_cents.
C9_NeverOverBudget ==
    [][ (ret'.op = "hire_agent" /\ orch.spent_cents <= orch.budget_cents)
            => orch'.spent_cents <= orch'.budget_cents
      ]_vars

\* C18: a store failure never leaves a ledger operation without its result.
\* In every reachable state, each ledger function called with any input
\* returns its failure value when the store is not connected or one of its
\* store calls raises (register_agent False, the recorders None,
\* get_agent_stats None); every hire_agent call returns a status, success
\* when only its ledger calls failed; and check_budget returns the local
\* remaining budget when the reader failed.
C18_ErrorsBecomeStatus ==
    /\ [](\A name \in Names, amount \in Amounts, F \in FaultSets(4) :
            LET reg == register_agent(agents, connected, name, F)
                earn == record_earning(agents, transactions, connected, name,
                                       ClientId, amount, F)
                spend == record_agent_spending(agents, transactions, connected,
                                               name, ClientId, amount, F)
            IN  /\ (~connected \/ reg.raised) => reg.status = "False"
                /\ (~connected \/ earn.raised) => earn.status = "None"
                /\ (~connected \/ spend.raised) => spend.status = "None"
                /\ (~connected \/ StatsRaised(connected, F))
                       => get_agent_stats(agents, connected, name, F) = <<>>)
    /\ [][ ret'.op = "hire_agent" =>
             /\ ret'.status \in {"success:", "success:task_error",
                                 "error:unknown_agent", "error:insufficient_budget",
                                 "error:exception"}
             /\ ret'.raised => ret'.status = "success:"
         ]_vars
    /\ [][ (ret'.op = "check_budget" /\ (~connected \/ ret'.raised)) =>
             /\ ret'.status = "ok"
             /\ ret'.amount = orch.budget_cents - orch.spent_cents
             /\ orch' = orch
         ]_vars

\* a hire returned success although a store call of its ledger calls raised
C18_Witness ==
    /\ ret.op = "hire_agent"
    /\ ret.raised
    /\ ret.status = "success:"
    /\ connected

\* C19: a hire_agent call that returns success appends at most one row that
\* records the transfer from the orchestrator to the hired specialist.
C19_OneRowPerHire ==
    [][ (ret'.op = "hire_agent" /\ ret'.status = "success:") =>
          Cardinality({ i \in DOMAIN transactions' :
                          /\ i > Len(transactions)
                          /\ transactions'[i].from_agent_name = orch.agent_id
                          /\ transactions'[i].to_agent_name = AgentIdOf(ret'.name) })
              <= 1
      ]_vars

\* C20: for an orchestrator whose row was seeded by its constructor and has
\* earned nothing, a check_budget that reads the row while total_spent is
\* within the seed returns remaining_cents = seed - total_spent.
C20_SeedSurvivesSpending ==
    [][ ( /\ ret'.op = "check_budget"
          /\ Stats(agents, orch.agent_id) # <<>>
          /\ connected
          /\ ~ret'.raised )
        => LET row == Party(agents, orch.agent_id)
           IN  ( /\ row.type = "spender"
                 /\ row.total_earned = 0
                 /\ \E budget \in Budgets : row.total_spent <= budget * 100 )
               => \E budget \in Budgets :
                      ret'.amount = budget * 100 - row.total_spent
      ]_vars

\* C21: when the constructor has loaded the trackers of a registered
\* orchestrator from its stored record, the remaining budget the hire gate
\* uses (budget_cents - spent_cents) is the remaining_cents check_budget
\* reports for that same record.
C21_GateAndCheckBudgetAgree ==
    [][ ( /\ ret'.op = "__init__"
          /\ connected
          /\ Stats(agents', orch'.agent_id) # <<>>
          /\ orch'.budget_cents = Party(agents', orch'.agent_id).balance
          /\ orch'.spent_cents = Party(agents', orch'.agent_id).total_spent )
        => orch'.budget_cents - orch'.spent_cents
               = check_budget(agents', connected, orch', {}).remaining
      ]_vars

\* C22: the local tracker is the fallback.  A hire whose task succeeded
\* while the orchestrator's stored record took no spending (store not
\* connected, call failed, or no record) still adds the charged amount to
\* spent_cents and leaves budget_cents alone; with the store not connected
\* the hire gate denies exactly when the cost exceeds budget_cents -
\* spent_cents; and a check_budget that cannot read the record reports
\* budget_cents - spent_cents and keeps both trackers.
C22_LocalTrackerFallback ==
    /\ [][ ( /\ ret'.op = "hire_agent"
             /\ ret'.status = "success:"
             /\ Stats(agents', orch.agent_id) = Stats(agents, orch.agent_id) )
           => /\ orch'.budget_cents = orch.budget_cents
              /\ \E effort \in Efforts(ret'.name) :
                    /\ ParseEarnings(EarningsCents(ret'.name, effort)) > 0
                    /\ orch'.spent_cents = orch.spent_cents
                           + ParseEarnings(EarningsCents(ret'.name, effort))
         ]_vars
    /\ [][ (ret'.op = "hire_agent" /\ ret'.name \in AgentTypes /\ ~connected) =>
             ( ret'.status = "error:insufficient_budget"
                 <=> ret'.amount > orch.budget_cents - orch.spent_cents )
         ]_vars
    /\ [][ ( /\ ret'.op = "check_budget"
             /\ \/ ~connected
                \/ ret'.raised
                \/ SelectByName(agents, orch.agent_id) = {} )
           => /\ ret'.amount = orch.budget_cents - orch.spent_cents
              /\ orch'.budget_cents = orch.budget_cents
              /\ orch'.spent_cents = orch.spent_cents
         ]_vars

\* with the store not connected, a hire has charged 900 of a budget of 1000
\* and check_budget reports the 100 left in the local tracker
C22_Witness ==
    /\ ~connected
    /\ ret.op = "check_budget"
    /\ ret.amount = 100
    /\ orch.budget_cents = 1000
    /\ orch.spent_cents = 900

\* C23: for a hire that returns success with the store connected, no store
\* call failing and both the orchestrator and the specialist registered,
\* the amount added to the orchestrator's total_spent and to spent_cents is
\* the amount added to the specialist's total_earned.
C23_BothSidesAgree ==
    [][ ( /\ ret'.op = "hire_agent"
          /\ ret'.status = "success:"
          /\ connected
          /\ ~ret'.raised
          /\ SelectByName(agents, orch.agent_id) # {}
          /\ SelectByName(agents, AgentIdOf(ret'.name)) # {} )
        => LET paid == Party(agents', orch.agent_id).total_spent
                           - Party(agents, orch.agent_id).total_spent
               earned == Party(agents', AgentIdOf(ret'.name)).total_earned
                             - Party(agents, AgentIdOf(ret'.name)).total_earned
           IN  /\ paid = earned
               /\ orch'.spent_cents - orch.spent_cents = earned
      ]_vars

\* C24: constructing the orchestrator for a name that already has an agent
\* row changes nothing in the agents collection, whatever the constructor's
\* first read of the stats returns.
C24_ConstructKeepsExistingRecord ==
    [][ (ret'.op = "__init__" /\ SelectByName(agents, ret'.name) # {})
            => agents' = agents
      ]_vars

\* C26: a hire that is denied (unknown type, insufficient budget) or whose
\* task reported an error leaves spent_cents and budget_cents as they were,
\* appends no spending row and leaves the orchestrator's stored record alone.
C26_RefusedHireChargesNothing ==
    [][ ( /\ ret'.op = "hire_agent"
          /\ ret'.status \in {"error:unknown_agent", "error:insufficient_budget",
                              "success:task_error"} ) =>
          /\ orch'.spent_cents = orch.spent_cents
          /\ orch'.budget_cents = orch.budget_cents
          /\ \A i \in DOMAIN transactions' :
                 i > Len(transactions) => transactions'[i].from_agent_id = NoId
          /\ SelectByName(agents', orch.agent_id) = SelectByName(agents, orch.agent_id)
      ]_vars

\* a seeded orchestrator whose tracker already shows 229 charged hires
\* again and the task reports an error: the tracker still shows 229 and the
\* stored record is as seeded
C26_Witness ==
    /\ ret.op = "hire_agent"
    /\ ret.status = "success:task_error"
    /\ connected
    /\ orch.spent_cents = 229
    /\ SelectByName(agents, orch.agent_id) # {}
    /\ Party(agents, orch.agent_id).balance = 1000
    /\ Party(agents, orch.agent_id).total_spent = 0

\* C27: hire_agent returns status success only when the hired task reported
\* success; a task that reported an error gives status error.
C27_SuccessOnlyIfTaskSucceeded ==
    [][ ret'.op = "hire_agent" => ret'.status # "success:task_error" ]_vars

\* C28: when create_execution_plan reports budget_check OK, a hire_agent
\* call in the same state for any offered type, with the plan's
\* estimated_total_cost as its estimated cost, is not denied for
\* insufficient budget.
C28_PlanAndGateAgree ==
    [][ (ret'.op = "create_execution_plan" /\ ret'.status = "OK") =>
          \A agent_type \in AgentTypes : \A effort \in Efforts(agent_type) :
              hire_agent(agents, transactions, connected, orch, agent_type,
                         ret'.amount, TRUE, effort, {}).error
                  # "insufficient_budget"
      ]_vars

\* C29: a hire_agent call for an offered type that passes the budget gate
\* holds an instance of that agent afterwards and has run its task: it
\* returns success, not an error raised before the task ran.
C29_EveryOfferedAgentHireable ==
    [][ ( /\ ret'.op = "hire_agent"
          /\ ret'.name \in AgentTypes
          /\ ret'.status # "error:insufficient_budget" )
        => /\ ret'.name \in orch'.instances
           /\ ret'.status \in {"success:", "success:task_error"}
      ]_vars

\* ---------------------------------------- properties of concurrent callers

\* every caller is between calls
AllIdle == \A p \in Procs : pc[p] = "idle"

\* the sum of the amounts of the rows with index in S
RECURSIVE SumAmounts(_, _)
SumAmounts(tx, S) ==
    IF S = {} THEN 0
    ELSE LET i == CHOOSE j \in S : TRUE
         IN  tx[i].amount + SumAmounts(tx, S \ {i})

\* the earning rows and the spending rows that agent row r owns
OwnEarningRows(tx, r) ==
    {i \in DOMAIN tx : tx[i].from_agent_id = NoId /\ tx[i].to_agent_id = r.id}

OwnSpendingRows(tx, r) ==
    {i \in DOMAIN tx : tx[i].from_agent_id = r.id}

\* C2: once every concurrent recorder call has returned, each agent's
\* total_earned, total_spent and transaction_count are the sums over the calls
\* that returned a transaction id.
C2_NoLostUpdates ==
    AllIdle =>
        \A n \in Names : \A r \in SelectByName(agents, n) :
            r = First(SelectByName(agents, n)) =>
                /\ r.total_earned = returned[n].earned
                /\ r.total_spent = returned[n].spent
                /\ r.transaction_count = returned[n].calls

\* C4: whenever get_agent_stats reads an agent while recorder calls run, the
\* rows of the transactions collection that the agent owns are exactly what
\* its stats include: no row without its stat update, no stat update without
\* its row.
C4_ReaderSeesRowsAndStatsTogether ==
    [][ ( /\ ret'.op = "get_agent_stats"
          /\ ret'.status = "ok"
          /\ UNCHANGED <<agents, transactions, conc>> )
        => LET r == First(SelectByName(agents, ret'.name))
           IN  /\ r.total_earned =
                      SumAmounts(transactions, OwnEarningRows(transactions, r))
               /\ r.total_spent =
                      SumAmounts(transactions, OwnSpendingRows(transactions, r))
               /\ r.balance = r.total_earned - r.total_spent
               /\ r.transaction_count = Cardinality(OwnRows(transactions, r))
      ]_vars

\* C25: once every concurrent register_agent call has returned, no agent
\* name has more than one row.
C25_OneRowPerName ==
    AllIdle => \A n \in Names : Cardinality(SelectByName(agents, n)) <= 1

====
